---- MODULE Spec2Model ----
(***************************************************************************)
(* A model of handoc (src/src/main.rs): a socket-activated gateway that    *)
(* serves manual pages over HTTP/1.1.  One process instance adapts the     *)
(* socket on fd 0 into one served connection; requests on that connection  *)
(* are dispatched to `find` (section resolution) or `render` (conditional  *)
(* rendering with alias indirection).                                      *)
(*                                                                         *)
(* Text is modelled by TLA+ strings, time by integer ticks (TicksPerSec    *)
(* ticks to the second) so that the sub-second part of a modification      *)
(* time, which an HTTP date cannot carry, is visible.  Only GET requests   *)
(* with one or two path segments are modelled.                             *)
(***************************************************************************)
EXTENDS Integers, Sequences, FiniteSets, TLC

(***************************************************************************)
(* Bounds                                                                  *)
(***************************************************************************)
MaxRequests == 2      \* requests served on the connection
MaxTicks == 3         \* modification times range over 0..MaxTicks ticks
TicksPerSec == 2      \* resolution of the file system clock
MaxPresent == 2       \* sections in which a probed page exists

(***************************************************************************)
(* Strings                                                                 *)
(***************************************************************************)
StartsWith(s, p) == Len(s) >= Len(p) /\ SubSeq(s, 1, Len(p)) = p

EndsWith(s, p) == Len(s) >= Len(p) /\ SubSeq(s, Len(s) - Len(p) + 1, Len(s)) = p

None == [some |-> FALSE, val |-> ""]

Some(v) == [some |-> TRUE, val |-> v]

\* str::strip_prefix / str::strip_suffix
StripPrefix(s, p) ==
    IF StartsWith(s, p) THEN Some(SubSeq(s, Len(p) + 1, Len(s))) ELSE None

\* a strip_suffix that lets a name without the suffix through
StripSuffixLax(s, p) ==
    IF EndsWith(s, p) THEN Some(SubSeq(s, 1, Len(s) - Len(p))) ELSE Some(s)

StripSuffix(s, p) ==
    IF EndsWith(s, p) THEN Some(SubSeq(s, 1, Len(s) - Len(p))) ELSE None

\* position of the last occurrence of the one-character string c, or 0
RECURSIVE LastIndexFrom(_, _, _)
LastIndexFrom(s, c, i) ==
    IF i = 0 THEN 0
    ELSE IF SubSeq(s, i, i) = c THEN i
    ELSE LastIndexFrom(s, c, i - 1)

\* position of the first occurrence of c at or after i, or 0
RECURSIVE FirstIndexFrom(_, _, _)
FirstIndexFrom(s, c, i) ==
    IF i > Len(s) THEN 0
    ELSE IF SubSeq(s, i, i) = c THEN i
    ELSE FirstIndexFrom(s, c, i + 1)

\* str::rsplit_once('.')
RSplitOnceDot(s) ==
    LET i == LastIndexFrom(s, ".", Len(s))
    IN  IF i = 0
        THEN [some |-> FALSE, name |-> "", section |-> ""]
        ELSE [some |-> TRUE, name |-> SubSeq(s, 1, i - 1),
              section |-> SubSeq(s, i + 1, Len(s))]

Digits == <<"0", "1", "2", "3", "4", "5", "6", "7", "8", "9">>

IsAsciiDigit(c) == \E d \in 1..10 : Digits[d] = c

DigitStr(n) == Digits[n + 1]

DigitVal(c) == (CHOOSE d \in 1..10 : Digits[d] = c) - 1

(***************************************************************************)
(* State                                                                   *)
(***************************************************************************)
VARIABLES
    fd0,        \* what the supervisor left on file descriptor 0
    procPc,     \* main: "start", "serving", "exited"
    conns,      \* connections this process instance has driven
    files,      \* the corpus: path -> [mtime, access, content]
    req,        \* the request being handled (or the last one handled)
    pc,         \* handler position: "idle", the bg call it awaits, "dropped"
    fp,         \* render: path of the Backing Document
    when,       \* render: parsed If-Modified-Since, an Option<SystemTime>
    date,       \* render: modification time read in the metadata step
    inflight,   \* closures handed to spawn_blocking and not yet joined
    ops,        \* blocking operations performed for the current request
    diag,       \* conv_ioe wrote a diagnostic for the current request
    failure,    \* kind of the io::Error a collaborator returned, "" if none
    resp,       \* response to the current request, NoResp while handling
    prev,       \* the previous exchange: its document and its date header
    served      \* responses written on the connection

vars == <<fd0, procPc, conns, files, req, pc, fp, when, date, inflight, ops,
          diag, failure, resp, prev, served>>

(***************************************************************************)
(* Responses                                                               *)
(***************************************************************************)
NOT_FOUND == 404
FORBIDDEN == 403
INTERNAL_SERVER_ERROR == 500
BAD_REQUEST == 400
NOT_MODIFIED == 304
TEMPORARY_REDIRECT == 307
OK == 200

PAGE_PRE ==
    "<!DOCTYPE html>\n"
    \o "<html lang=\"en\">\n"
    \o "<head>\n"
    \o "<meta charset=\"utf-8\"/>\n"
    \o "<meta name=\"viewport\" content=\"width=device-width, initial-scale=1.0\"/>\n"
    \o "<link rel=\"stylesheet\" href=\"/style.css\" type=\"text/css\" media=\"all\">\n"
    \o "</head>\n"
    \o "<body>\n"

PAGE_POST == "\n</body>\n</html>\n"

NoResp == [status |-> 0, location |-> "", date |-> None, body |-> ""]

\* StatusCode::into_response
StatusResponse(code) ==
    [status |-> code, location |-> "", date |-> None, body |-> ""]

\* Redirect::temporary(uri).into_response()
RedirectTemporary(uri) ==
    [status |-> TEMPORARY_REDIRECT, location |-> uri, date |-> None, body |-> ""]

\* Html(body).into_response()
Html(body) == [status |-> OK, location |-> "", date |-> None, body |-> body]

(***************************************************************************)
(* Time and HTTP dates (httpdate).  A SystemTime is [day, tick]: whole     *)
(* days since the epoch and ticks into that day.                           *)
(***************************************************************************)
TicksPerDay == 86400 * TicksPerSec

\* the instant t ticks after the epoch
MkTime(t) == [day |-> t \div TicksPerDay, tick |-> t % TicksPerDay]

Epoch == MkTime(0)

\* SystemTime: a >= b, a > b
TimeGe(a, b) == a.day > b.day \/ (a.day = b.day /\ a.tick >= b.tick)

TimeGt(a, b) == a.day > b.day \/ (a.day = b.day /\ a.tick > b.tick)

TwoDigits(n) == DigitStr(n \div 10) \o DigitStr(n % 10)

FourDigits(n) == TwoDigits(n \div 100) \o TwoDigits(n % 100)

\* weekdays are numbered Monday = 1 .. Sunday = 7, months January = 1 ..
ShortDays == <<"Mon", "Tue", "Wed", "Thu", "Fri", "Sat", "Sun">>

LongDays ==
    <<"Monday", "Tuesday", "Wednesday", "Thursday", "Friday", "Saturday", "Sunday">>

Months ==
    <<"Jan", "Feb", "Mar", "Apr", "May", "Jun", "Jul", "Aug", "Sep", "Oct", "Nov", "Dec">>

\* the weekday of the day that many days after the epoch (a Thursday)
WeekdayOf(days) == ((days + 3) % 7) + 1

\* SystemTime::from(HttpDate): days since the epoch of a civil date
DaysFromCivil(year, mon, day) ==
    LET y == IF mon <= 2 THEN year - 1 ELSE year
        era == y \div 400
        yoe == y - era * 400
        mp == IF mon > 2 THEN mon - 3 ELSE mon + 9
        doy == (153 * mp + 2) \div 5 + day - 1
        doe == yoe * 365 + yoe \div 4 - yoe \div 100 + doy
    IN  era * 146097 + doe - 719468

\* HttpDate::from(SystemTime): the civil date of a day since the epoch
CivilFromDays(days) ==
    LET z == days + 719468
        era == z \div 146097
        doe == z - era * 146097
        yoe == (doe - doe \div 1460 + doe \div 36524 - doe \div 146096) \div 365
        doy == doe - (365 * yoe + yoe \div 4 - yoe \div 100)
        mp == (5 * doy + 2) \div 153
        mon == IF mp < 10 THEN mp + 3 ELSE mp - 9
    IN  [year |-> yoe + era * 400 + (IF mon <= 2 THEN 1 ELSE 0),
         mon |-> mon,
         day |-> doy - (153 * mp + 2) \div 5 + 1]

\* HttpDate::from(SystemTime).to_string(): IMF-fixdate of the whole seconds,
\* the rest dropped
HttpDateString(t) ==
    LET secs == t.tick \div TicksPerSec
        c == CivilFromDays(t.day)
    IN  ShortDays[WeekdayOf(t.day)] \o ", " \o TwoDigits(c.day) \o " "
            \o Months[c.mon] \o " " \o FourDigits(c.year) \o " "
            \o TwoDigits(secs \div 3600) \o ":"
            \o TwoDigits((secs \div 60) % 60) \o ":"
            \o TwoDigits(secs % 60) \o " GMT"

\* toint_1, toint_2, toint_4: -1 stands for Err
ToInt(s) ==
    IF \A i \in 1..Len(s) : IsAsciiDigit(SubSeq(s, i, i))
    THEN LET RECURSIVE val(_)
             val(i) == IF i = 0 THEN 0
                       ELSE 10 * val(i - 1) + DigitVal(SubSeq(s, i, i))
         IN  val(Len(s))
    ELSE -1

\* index of the token in the table, 0 if it is not there
IndexIn(table, tok) ==
    IF \E i \in 1..Len(table) : table[i] = tok
    THEN CHOOSE i \in 1..Len(table) : table[i] = tok
    ELSE 0

NoDate == [ok |-> FALSE, sec |-> 0, min |-> 0, hour |-> 0, day |-> 0,
           mon |-> 0, year |-> 0, wday |-> 0]

\* the fields as parsed; ok unless a number or a name did not parse
DateFields(sec, min, hour, day, mon, year, wday) ==
    IF sec < 0 \/ min < 0 \/ hour < 0 \/ day < 0 \/ year < 0 \/ mon = 0 \/ wday = 0
    THEN NoDate
    ELSE [ok |-> TRUE, sec |-> sec, min |-> min, hour |-> hour, day |-> day,
          mon |-> mon, year |-> year, wday |-> wday]

\* parse_imf_fixdate: "Thu, 01 Jan 1970 00:00:01 GMT"
ParseImfFixdate(s) ==
    IF Len(s) # 29 \/ SubSeq(s, 26, 29) # " GMT" \/ SubSeq(s, 17, 17) # " "
           \/ SubSeq(s, 20, 20) # ":" \/ SubSeq(s, 23, 23) # ":"
           \/ SubSeq(s, 4, 5) # ", " \/ SubSeq(s, 8, 8) # " "
           \/ SubSeq(s, 12, 12) # " "
    THEN NoDate
    ELSE DateFields(ToInt(SubSeq(s, 24, 25)), ToInt(SubSeq(s, 21, 22)),
                    ToInt(SubSeq(s, 18, 19)), ToInt(SubSeq(s, 6, 7)),
                    IndexIn(Months, SubSeq(s, 9, 11)), ToInt(SubSeq(s, 13, 16)),
                    IndexIn(ShortDays, SubSeq(s, 1, 3)))

\* parse_rfc850_date: "Thursday, 01-Jan-70 00:00:01 GMT"
ParseRfc850Date(s) ==
    LET comma == FirstIndexFrom(s, ",", 1)
        wday == IF comma = 0 THEN 0 ELSE IndexIn(LongDays, SubSeq(s, 1, comma - 1))
        r == SubSeq(s, comma + 2, Len(s))
        yy == ToInt(SubSeq(r, 8, 9))
    IN  IF Len(s) < 23 \/ wday = 0 \/ SubSeq(s, comma + 1, comma + 1) # " "
               \/ Len(r) # 22 \/ SubSeq(r, 13, 13) # ":" \/ SubSeq(r, 16, 16) # ":"
               \/ SubSeq(r, 19, 22) # " GMT"
               \/ SubSeq(r, 3, 3) # "-" \/ SubSeq(r, 7, 7) # "-"
        THEN NoDate
        ELSE DateFields(ToInt(SubSeq(r, 17, 18)), ToInt(SubSeq(r, 14, 15)),
                        ToInt(SubSeq(r, 11, 12)), ToInt(SubSeq(r, 1, 2)),
                        IndexIn(Months, SubSeq(r, 4, 6)),
                        IF yy < 0 THEN -1 ELSE IF yy < 70 THEN yy + 2000 ELSE yy + 1900,
                        wday)

\* parse_asctime: "Thu Jan  1 00:00:01 1970"
ParseAsctime(s) ==
    IF Len(s) # 24 \/ SubSeq(s, 11, 11) # " " \/ SubSeq(s, 14, 14) # ":"
           \/ SubSeq(s, 17, 17) # ":" \/ SubSeq(s, 20, 20) # " "
           \/ SubSeq(s, 4, 4) # " " \/ SubSeq(s, 8, 8) # " "
    THEN NoDate
    ELSE DateFields(ToInt(SubSeq(s, 18, 19)), ToInt(SubSeq(s, 15, 16)),
                    ToInt(SubSeq(s, 12, 13)),
                    IF SubSeq(s, 9, 9) = " " THEN ToInt(SubSeq(s, 10, 10))
                    ELSE ToInt(SubSeq(s, 9, 10)),
                    IndexIn(Months, SubSeq(s, 5, 7)), ToInt(SubSeq(s, 21, 24)),
                    IndexIn(ShortDays, SubSeq(s, 1, 3)))

\* HttpDate::is_valid: the fields are in range and the date survives the
\* round trip through SystemTime (no 31st of February, the right weekday)
IsValidDate(d) ==
    /\ d.sec < 60 /\ d.min < 60 /\ d.hour < 24
    /\ d.day > 0 /\ d.day < 32
    /\ d.mon > 0 /\ d.mon <= 12
    /\ d.year >= 1970 /\ d.year <= 9999
    /\ LET days == DaysFromCivil(d.year, d.mon, d.day)
       IN  /\ CivilFromDays(days) = [year |-> d.year, mon |-> d.mon, day |-> d.day]
           /\ d.wday = WeekdayOf(days)

\* str::trim
RECURSIVE Trim(_)
Trim(s) ==
    IF Len(s) > 0 /\ SubSeq(s, 1, 1) \in {" ", "\t"} THEN Trim(SubSeq(s, 2, Len(s)))
    ELSE IF Len(s) > 0 /\ SubSeq(s, Len(s), Len(s)) \in {" ", "\t"}
    THEN Trim(SubSeq(s, 1, Len(s) - 1))
    ELSE s

\* httpdate::parse_http_date: the three formats in turn; [ok, val] with val
\* a SystemTime
ParseHttpDate(s) ==
    LET x == Trim(s)
        imf == ParseImfFixdate(x)
        rfc850 == ParseRfc850Date(x)
        d == IF imf.ok THEN imf ELSE IF rfc850.ok THEN rfc850 ELSE ParseAsctime(x)
    IN  IF d.ok /\ IsValidDate(d)
        THEN [ok |-> TRUE,
              val |-> [day |-> DaysFromCivil(d.year, d.mon, d.day),
                       tick |-> (d.hour * 3600 + d.min * 60 + d.sec) * TicksPerSec]]
        ELSE [ok |-> FALSE, val |-> Epoch]

\* SetDate::into_response_parts applied to a response
SetDate(t, r) == [r EXCEPT !.date = Some(HttpDateString(t))]

\* an extractor that takes an unparsable header for an absent one
IfChangedSinceLenient(hdr) ==
    IF hdr.some /\ ParseHttpDate(hdr.val).ok
    THEN [ok |-> TRUE, when |-> [some |-> TRUE, val |-> ParseHttpDate(hdr.val).val]]
    ELSE [ok |-> TRUE, when |-> [some |-> FALSE, val |-> Epoch]]

\* IfChangedSince::from_request_parts: [ok, when]; ok = FALSE is the rejection
IfChangedSince(hdr) ==
    IF ~hdr.some THEN [ok |-> TRUE, when |-> [some |-> FALSE, val |-> Epoch]]
    ELSE LET p == ParseHttpDate(hdr.val)
         IN  IF p.ok THEN [ok |-> TRUE, when |-> [some |-> TRUE, val |-> p.val]]
             ELSE [ok |-> FALSE, when |-> [some |-> FALSE, val |-> Epoch]]

IfChangedSinceRejection ==
    [status |-> BAD_REQUEST, location |-> "", date |-> None,
     body |-> "cannot parse If-Modified-Since"]

(***************************************************************************)
(* Collaborators: the corpus and the formatter                             *)
(***************************************************************************)
IoOk(v) == [ok |-> TRUE, kind |-> "", val |-> v]

IoErr(k) == [ok |-> FALSE, kind |-> k, val |-> Epoch]

\* std::fs::metadata(p).and_then(|m| m.modified())
Metadata(p) ==
    IF p \notin DOMAIN files THEN IoErr("NotFound")
    ELSE IF files[p].access = "stat_denied" THEN IoErr("PermissionDenied")
    ELSE IF files[p].access = "stat_err" THEN IoErr("Other")
    ELSE IoOk(files[p].mtime)

\* std::fs::exists(p).unwrap_or_default()
Exists(p) == Metadata(p).ok

\* BufRead::read_line on the decompressed text: up to and including "\n"
ReadLine(text) ==
    LET i == FirstIndexFrom(text, "\n", 1)
    IN  IF i = 0 THEN text ELSE SubSeq(text, 1, i)

\* a check_so that looks for ".so" at the end of the line instead of the start
CheckSoSuffix(p) ==
    IF p \notin DOMAIN files THEN [ok |-> FALSE, kind |-> "NotFound", val |-> None]
    ELSE IF files[p].access = "open_denied"
    THEN [ok |-> FALSE, kind |-> "PermissionDenied", val |-> None]
    ELSE IF files[p].access = "read_err"
    THEN [ok |-> FALSE, kind |-> "InvalidData", val |-> None]
    ELSE LET raw == ReadLine(files[p].content)
         IN  IF EndsWith(raw, ".so ")
             THEN [ok |-> TRUE, kind |-> "", val |-> Some(raw)]
             ELSE [ok |-> TRUE, kind |-> "", val |-> None]

\* check_so: [ok, kind, val] with val an Option<String>
check_so(p) ==
    IF p \notin DOMAIN files THEN [ok |-> FALSE, kind |-> "NotFound", val |-> None]
    ELSE IF files[p].access = "open_denied"
    THEN [ok |-> FALSE, kind |-> "PermissionDenied", val |-> None]
    ELSE IF files[p].access = "read_err"
    THEN [ok |-> FALSE, kind |-> "InvalidData", val |-> None]
    ELSE LET raw == ReadLine(files[p].content)
             line == IF EndsWith(raw, "\n") THEN SubSeq(raw, 1, Len(raw) - 1)
                     ELSE raw
         IN  IF StartsWith(line, ".so ")
             THEN [ok |-> TRUE, kind |-> "", val |-> Some(SubSeq(line, 5, Len(line)))]
             ELSE [ok |-> TRUE, kind |-> "", val |-> None]

\* what running mandoc can come to: it cannot be spawned, or it runs and
\* leaves an exit status and bytes on stdout that are UTF-8 or not
MandocOutcomes ==
    { [spawn |-> "NotFound", exit |-> 0, utf8 |-> TRUE, stdout |-> ""],
      [spawn |-> "PermissionDenied", exit |-> 0, utf8 |-> TRUE, stdout |-> ""],
      [spawn |-> "Other", exit |-> 0, utf8 |-> TRUE, stdout |-> ""],
      [spawn |-> "ok", exit |-> 0, utf8 |-> FALSE, stdout |-> ""],
      [spawn |-> "ok", exit |-> 0, utf8 |-> TRUE, stdout |-> "<div class=manual-text>"],
      [spawn |-> "ok", exit |-> 1, utf8 |-> TRUE, stdout |-> ""] }

\* format_reply, given what mandoc did; the exit status is not looked at
format_reply(out) ==
    IF out.spawn # "ok" THEN [ok |-> FALSE, kind |-> out.spawn, val |-> ""]
    ELSE IF ~out.utf8 THEN [ok |-> FALSE, kind |-> "InvalidData", val |-> ""]
    ELSE [ok |-> TRUE, kind |-> "", val |-> PAGE_PRE \o out.stdout \o PAGE_POST]

\* a conv_ioe with the two special cases swapped
ConvIoeSwapped(kind) ==
    IF kind = "NotFound" THEN [status |-> FORBIDDEN, diag |-> FALSE]
    ELSE IF kind = "PermissionDenied" THEN [status |-> NOT_FOUND, diag |-> FALSE]
    ELSE [status |-> INTERNAL_SERVER_ERROR, diag |-> TRUE]

\* conv_ioe: the status, and whether a diagnostic is written
conv_ioe(kind) ==
    IF kind = "NotFound" THEN [status |-> NOT_FOUND, diag |-> FALSE]
    ELSE IF kind = "PermissionDenied" THEN [status |-> FORBIDDEN, diag |-> FALSE]
    ELSE [status |-> INTERNAL_SERVER_ERROR, diag |-> TRUE]

(***************************************************************************)
(* Handlers                                                                *)
(***************************************************************************)
ManDir == "/usr/share/man/man"

\* a blocking operation as run inline by the handler, on the scheduling thread
Blocking(op, path) == [op |-> op, path |-> path, thread |-> "sched"]

\* bg: the operation as run by tokio::task::spawn_blocking, on a worker
bg(task) == [task EXCEPT !.thread = "worker"]

\* the candidate sections in numeric order
SectionOrderNumeric == <<"1", "2", "3", "3p", "4", "5", "6", "7", "8", "9">>

\* find: the candidate sections, in probing order
SectionOrder == <<"1", "8", "6", "2", "3", "5", "7", "4", "9", "3p">>

\* a filter that forgets the section "n"
IsSectionTokenDigitOnly(section) ==
    Len(section) > 0 /\ IsAsciiDigit(SubSeq(section, 1, 1))

\* find: the filter on the text after the last dot
IsSectionToken(section) ==
    section = "n" \/ (Len(section) > 0 /\ IsAsciiDigit(SubSeq(section, 1, 1)))

\* find: the path whose existence is tested for a candidate section
ProbePath(name, section) ==
    ManDir \o section \o "/" \o name \o "." \o section \o ".gz"

\* find: index of the first candidate at or after i that exists, or 0
RECURSIVE FirstExisting(_, _)
FirstExisting(name, i) ==
    IF i > Len(SectionOrder) THEN 0
    ELSE IF Exists(ProbePath(name, SectionOrder[i])) THEN i
    ELSE FirstExisting(name, i + 1)

\* find: the existence tests the iterator performs, in order
Probes(name) ==
    LET k == FirstExisting(name, 1)
        n == IF k = 0 THEN Len(SectionOrder) ELSE k
    IN  [j \in 1..n |-> Blocking("exists", ProbePath(name, SectionOrder[j]))]

\* find: the whole handler; [resp, ops]
find(name) ==
    LET sp == RSplitOnceDot(name)
        k == FirstExisting(name, 1)
    IN  IF sp.some /\ IsSectionToken(sp.section)
        THEN [resp |-> RedirectTemporary(
                  "/" \o sp.section \o "/" \o sp.name \o "." \o sp.section \o ".html"),
              ops |-> <<>>]
        ELSE IF k # 0
        THEN [resp |-> RedirectTemporary(
                  "/" \o SectionOrder[k] \o "/" \o name \o "." \o SectionOrder[k] \o ".html"),
              ops |-> Probes(name)]
        ELSE [resp |-> StatusResponse(NOT_FOUND), ops |-> Probes(name)]

\* render: the path of the Backing Document
DocPath(section, name) == ManDir \o section \o "/" \o name \o ".gz"

\* a freshness test with a strict comparison
NotModifiedStrict(w, d) == w.some /\ TimeGt(w.val, d)

\* render: the freshness test
NotModified(w, d) == w.some /\ TimeGe(w.val, d)

\* render: the redirect target of an alias
AliasTarget(so) ==
    LET part == StripPrefix(so, "man")
    IN  IF part.some THEN Some("/" \o part.val \o ".html") ELSE None

NoWhen == [some |-> FALSE, val |-> Epoch]

\* the handler returns and the response is written
Respond(r, d, k) ==
    /\ resp' = r
    /\ diag' = d
    /\ failure' = k
    /\ pc' = "idle"
    /\ inflight' = {}
    /\ served' = served + 1

Reply(r) == Respond(r, FALSE, "")

\* `.map_err(conv_ioe)?` on an Err of the given kind
Fail(kind) ==
    Respond(StatusResponse(conv_ioe(kind).status), conv_ioe(kind).diag, kind)

\* the handler suspends on bg(task); nothing has been answered yet
Await(label, task) ==
    /\ pc' = label
    /\ inflight' = {bg(task)}
    /\ resp' = NoResp
    /\ diag' = FALSE
    /\ failure' = ""
    /\ UNCHANGED served

(***************************************************************************)
(* The corpus and the requests the model is run on                         *)
(***************************************************************************)
Contents ==
    { ".so man1/ls.1\n",
      ".so man1/ls.1",
      ".so man3/printf.3\n.\\\" alias\n",
      ".so ls.1\n",
      ".so \n",
      ".so\n",
      ".TH LS 1\n.SH NAME\n",
      "" }

DefaultAttr == [mtime |-> MkTime(2), access |-> "ok", content |-> ".TH LS 1\n.SH NAME\n"]

\* 6 November 1994 08:49:37 and the tick after it; the last tick of 9999
LaterTimes ==
    { [day |-> 9075, tick |-> 31777 * TicksPerSec],
      [day |-> 9075, tick |-> 31777 * TicksPerSec + 1],
      [day |-> 2932896, tick |-> TicksPerDay - 1] }

ReadableAttrs ==
    { [mtime |-> MkTime(1), access |-> "ok", content |-> c] : c \in Contents }
    \cup { [mtime |-> MkTime(t), access |-> "ok", content |-> c] :
             t \in 0..MaxTicks, c \in {".so man1/ls.1\n", ".TH LS 1\n.SH NAME\n"} }
    \cup { [mtime |-> t, access |-> "ok", content |-> ".TH LS 1\n.SH NAME\n"] :
             t \in LaterTimes }

BrokenAttrs ==
    { [mtime |-> MkTime(1), access |-> a, content |-> ".so man1/ls.1\n"] :
        a \in {"stat_denied", "stat_err", "open_denied", "read_err"} }

SmallSubsets == { S \in SUBSET (1..Len(SectionOrder)) : Cardinality(S) <= MaxPresent }

\* the pages name.<section>.gz of the sections S, all with attributes a
Corpus(name, S, a) ==
    [p \in { ProbePath(name, SectionOrder[i]) : i \in S } |-> a]

Corpora ==
    { Corpus("ls", S, DefaultAttr) : S \in SmallSubsets }
    \cup { Corpus("ls.n1", {i}, DefaultAttr) : i \in 1..Len(SectionOrder) }
    \cup { Corpus("ls", {1}, a) : a \in ReadableAttrs \cup BrokenAttrs }
    \cup { Corpus("ls", {1, 2}, a) : a \in BrokenAttrs }

MaxSecs == MaxTicks \div TicksPerSec + 1

IfModifiedSinceHeaders ==
    { None, Some("yesterday"),
      Some("Thursday, 01-Jan-70 00:00:01 GMT"),
      Some("Fri, 01 Jan 1970 00:00:01 GMT") }
    \cup { Some(HttpDateString(MkTime(s * TicksPerSec))) : s \in 0..MaxSecs }
    \cup { Some("Sun, 06 Nov 1994 08:49:37 GMT"),
           Some("Sun Nov  6 08:49:38 1994"),
           Some("Fri, 31 Dec 9999 23:59:59 GMT") }

FindNames == { "ls", "ls.1", "ls.n", "ls.3p", "ls.n1", "ls.", "ls.1.x" }

RenderNames == { "ls.1.html", "ls.1", "ls.8.html", "ls.1html" }

Requests ==
    { [segs |-> <<n>>, ims |-> None] : n \in FindNames }
    \cup { [segs |-> <<"ls">>, ims |-> Some("yesterday")] }
    \cup { [segs |-> <<"1", "ls.1.html">>, ims |-> h] : h \in IfModifiedSinceHeaders }
    \cup { [segs |-> <<"1", n>>, ims |-> h] :
             n \in RenderNames,
             h \in {None, Some(""), Some("Fri, 01 Jan 1971 00:00:00 GMT")} }
    \cup { [segs |-> <<"8", "ls.8.html">>, ims |-> None] }

NoReq == [segs |-> <<>>, ims |-> None]

NoPrev == [fp |-> "", date |-> None]

(***************************************************************************)
(* Actions                                                                 *)
(***************************************************************************)
Init ==
    /\ fd0 \in {"tcp", "not_a_socket"}
    /\ procPc = "start"
    /\ conns = 0
    /\ files \in Corpora
    /\ req = NoReq
    /\ pc = "idle"
    /\ fp = ""
    /\ when = NoWhen
    /\ date = Epoch
    /\ inflight = {}
    /\ ops = <<>>
    /\ diag = FALSE
    /\ failure = ""
    /\ resp = NoResp
    /\ prev = NoPrev
    /\ served = 0

\* main: local_addr fails on fd 0 and the process returns at once
MainNotSocket ==
    /\ procPc = "start"
    /\ fd0 # "tcp"
    /\ procPc' = "exited"
    /\ UNCHANGED <<fd0, conns, files, req, pc, fp, when, date, inflight, ops,
                   diag, failure, resp, prev, served>>

\* main: local_addr succeeds; serve_connection is entered on fd 0
MainServe ==
    /\ procPc = "start"
    /\ fd0 = "tcp"
    /\ procPc' = "serving"
    /\ conns' = conns + 1
    /\ UNCHANGED <<fd0, files, req, pc, fp, when, date, inflight, ops,
                   diag, failure, resp, prev, served>>

\* a main with an accept loop: after the connection ends it serves another
MainExitLoop ==
    /\ procPc = "serving"
    /\ pc = "idle"
    /\ procPc' = "start"
    /\ UNCHANGED <<fd0, conns, files, req, pc, fp, when, date, inflight, ops,
                   diag, failure, resp, prev, served>>

\* main: the connection ends, serve_connection returns, block_on returns.
\* A handler suspended on a bg call is dropped and never resumed; its
\* closure, if a worker has taken it up, is finished before the runtime is
\* gone, and is discarded otherwise.
MainExit ==
    /\ procPc = "serving"
    /\ procPc' = "exited"
    /\ inflight' = {}
    /\ IF pc = "idle"
       THEN UNCHANGED <<pc, ops>>
       ELSE /\ pc' = "dropped"
            /\ \E task \in inflight : ops' \in {ops, Append(ops, task)}
    /\ UNCHANGED <<fd0, conns, files, req, fp, when, date,
                   diag, failure, resp, prev, served>>

\* a request arrives on the connection: the previous exchange is history
Accept(r) ==
    /\ procPc = "serving"
    /\ pc = "idle"
    /\ served < MaxRequests
    /\ req' = r
    /\ prev' = [fp |-> fp, date |-> resp.date]
    /\ UNCHANGED <<fd0, procPc, conns, files>>

\* GET /:name
Find(r) ==
    /\ Len(r.segs) = 1
    /\ Accept(r)
    /\ LET f == find(r.segs[1])
       IN  /\ ops' = f.ops
           /\ Reply(f.resp)
    /\ fp' = ""
    /\ when' = NoWhen
    /\ date' = Epoch

\* GET /:section/:name, up to the first bg call
Render(r) ==
    /\ Len(r.segs) = 2
    /\ Accept(r)
    /\ ops' = <<>>
    /\ date' = Epoch
    /\ LET ext == IfChangedSince(r.ims)
           name == StripSuffix(r.segs[2], ".html")
       IN  IF ~ext.ok
           THEN /\ Reply(IfChangedSinceRejection)
                /\ fp' = ""
                /\ when' = NoWhen
           ELSE IF ~name.some
           THEN /\ Reply(StatusResponse(NOT_FOUND))
                /\ fp' = ""
                /\ when' = ext.when
           ELSE /\ fp' = DocPath(r.segs[1], name.val)
                /\ when' = ext.when
                /\ Await("metadata", Blocking("metadata", fp'))

\* render: the metadata read is joined
RenderMetadata ==
    /\ pc = "metadata"
    /\ \E task \in inflight :
         /\ task.op = "metadata"
         /\ ops' = Append(ops, task)
         /\ LET m == Metadata(task.path)
            IN  IF ~m.ok
                THEN /\ Fail(m.kind)
                     /\ date' = Epoch
                ELSE /\ date' = m.val
                     /\ IF NotModified(when, m.val)
                        THEN Reply(StatusResponse(NOT_MODIFIED))
                        ELSE Await("check_so", Blocking("check_so", fp))
    /\ UNCHANGED <<fd0, procPc, conns, files, req, fp, when, prev>>

\* render: the first-line read is joined
RenderCheckSo ==
    /\ pc = "check_so"
    /\ \E task \in inflight :
         /\ task.op = "check_so"
         /\ ops' = Append(ops, task)
         /\ LET so == check_so(task.path)
            IN  IF ~so.ok
                THEN Fail(so.kind)
                ELSE IF so.val.some
                THEN LET dst == AliasTarget(so.val.val)
                     IN  IF dst.some
                         THEN Reply(SetDate(date, RedirectTemporary(dst.val)))
                         ELSE Reply(StatusResponse(NOT_FOUND))
                ELSE Await("format_reply", Blocking("format_reply", fp))
    /\ UNCHANGED <<fd0, procPc, conns, files, req, fp, when, date, prev>>

\* render: the formatter run is joined
RenderFormat ==
    /\ pc = "format_reply"
    /\ \E task \in inflight, out \in MandocOutcomes :
         /\ task.op = "format_reply"
         /\ ops' = Append(ops, task)
         /\ LET body == format_reply(out)
            IN  IF ~body.ok
                THEN Fail(body.kind)
                ELSE Reply(SetDate(date, Html(body.val)))
    /\ UNCHANGED <<fd0, procPc, conns, files, req, fp, when, date, prev>>

Next ==
    \/ MainNotSocket
    \/ MainServe
    \/ MainExit
    \/ \E r \in Requests : Find(r)
    \/ \E r \in Requests : Render(r)
    \/ RenderMetadata
    \/ RenderCheckSo
    \/ RenderFormat

Spec == Init /\ [][Next]_vars

(***************************************************************************)
(* Properties                                                              *)
(***************************************************************************)
IsFind == Len(req.segs) = 1

IsRender == Len(req.segs) = 2

\* the current request has been answered
Done == req # NoReq /\ pc = "idle"

\* the blocking operation has been performed for the current request
Ran(op) == \E i \in 1..Len(ops) : ops[i].op = op

\* ... or has been handed to a worker
Started(op) == Ran(op) \/ \E t \in inflight : t.op = op

\* the If-Modified-Since header is present and is not an HTTP date
Unparsable(hdr) == hdr.some /\ ~ParseHttpDate(hdr.val).ok

\* the text after the last dot of the name is "n" or begins with a digit
HasSectionSuffix(name) ==
    \E i \in 1..Len(name) :
        /\ SubSeq(name, i, i) = "."
        /\ \A j \in (i + 1)..Len(name) : SubSeq(name, j, j) # "."
        /\ \/ SubSeq(name, i + 1, Len(name)) = "n"
           \/ /\ i < Len(name)
              /\ SubSeq(name, i + 1, i + 1) \in
                     {"0", "1", "2", "3", "4", "5", "6", "7", "8", "9"}

\* C1: a render request whose metadata read succeeded is answered 304 with
\* an empty body exactly when an If-Modified-Since token is present and is
\* not earlier than the modification time; on a 304 the metadata read is the
\* only blocking operation of the request.
FreshnessDecides ==
    (Done /\ IsRender /\ Ran("metadata") /\ Metadata(fp).ok) =>
        LET token == ParseHttpDate(req.ims.val).val
            mtime == files[fp].mtime
        IN  /\ (resp.status = 304) <=>
                   /\ req.ims.some
                   /\ \/ token.day > mtime.day
                      \/ token.day = mtime.day /\ token.tick >= mtime.tick
            /\ (resp.status = 304) =>
                   /\ resp.body = ""
                   /\ Len(ops) = 1
                   /\ ~Ran("check_so")
                   /\ ~Ran("format_reply")

\* a 304 for a document whose modification time is not a whole second
FreshnessHit ==
    /\ Done /\ IsRender
    /\ resp.status = 304
    /\ files[fp].mtime.tick % TicksPerSec # 0

ExpectedOrder == <<"1", "8", "6", "2", "3", "5", "7", "4", "9", "3p">>

ExpectedProbe(name, i) ==
    "/usr/share/man/man" \o ExpectedOrder[i] \o "/" \o name \o "."
        \o ExpectedOrder[i] \o ".gz"

\* C2: for a name without a section suffix, find tests the candidates
\* 1, 8, 6, 2, 3, 5, 7, 4, 9, 3p in that order for the unmodified name, stops
\* at the first that exists and redirects to /{section}/{name}.{section}.html;
\* when none exists the answer is 404.
ProbesInPriorityOrder ==
    (Done /\ IsFind /\ ~HasSectionSuffix(req.segs[1])) =>
        LET name == req.segs[1]
            n == Len(ops)
        IN  /\ n \in 1..10
            /\ \A i \in 1..n :
                   /\ ops[i].op = "exists"
                   /\ ops[i].path = ExpectedProbe(name, i)
            /\ \A i \in 1..(n - 1) : ~Exists(ExpectedProbe(name, i))
            /\ IF Exists(ExpectedProbe(name, n))
               THEN /\ resp.status = 307
                    /\ resp.location = "/" \o ExpectedOrder[n] \o "/" \o name
                                           \o "." \o ExpectedOrder[n] \o ".html"
               ELSE n = 10 /\ resp.status = 404

\* the page exists in sections 2 and 3p only: four probes, redirect to 2
ProbeSkipsMissing ==
    /\ Done /\ IsFind
    /\ req.segs[1] = "ls"
    /\ DOMAIN files = {"/usr/share/man/man2/ls.2.gz", "/usr/share/man/man3p/ls.3p.gz"}
    /\ Len(ops) = 4
    /\ resp.location = "/2/ls.2.html"

\* C3: for a name whose text after the last dot is "n" or begins with a
\* digit, find redirects to /{section}/{name}.{section}.html with that text
\* as the section and the text before the dot as the name, and tests the
\* existence of nothing.
SuffixRedirectsWithoutProbe ==
    (Done /\ IsFind /\ HasSectionSuffix(req.segs[1])) =>
        LET name == req.segs[1]
            dot == CHOOSE i \in 1..Len(name) :
                       /\ SubSeq(name, i, i) = "."
                       /\ \A j \in (i + 1)..Len(name) : SubSeq(name, j, j) # "."
            section == SubSeq(name, dot + 1, Len(name))
            page == SubSeq(name, 1, dot - 1)
        IN  /\ resp.status = 307
            /\ resp.location = "/" \o section \o "/" \o page \o "." \o section
                                   \o ".html"
            /\ ops = <<>>

\* ls.n is redirected to section n although no such page exists
SuffixRedirect ==
    /\ Done /\ IsFind
    /\ req.segs[1] = "ls.n"
    /\ resp.location = "/n/ls.n.html"
    /\ "/usr/share/man/mann/ls.n.gz" \notin DOMAIN files

\* the first line of the document of the current render request carries an alias
HasAlias == fp \in DOMAIN files /\ StartsWith(files[fp].content, ".so ")

\* the alias target: the first line after the marker, without its newline
AliasOf(text) ==
    LET line == ReadLine(text)
        end == IF EndsWith(line, "\n") THEN Len(line) - 1 ELSE Len(line)
    IN  SubSeq(line, 5, end)

\* C4: in a render request that is not a freshness hit and whose document's
\* first line begins with ".so ", the formatter is never invoked; once the
\* first line has been read the answer is a temporary redirect to
\* /{target without "man"}.html, or 404 when the target does not begin with
\* "man".  The formatter runs only for a document without an alias.
AliasPrecedesRendering ==
    /\ (IsRender /\ HasAlias) =>
           /\ ~Started("format_reply")
           /\ (Done /\ Ran("check_so") /\ failure = "") =>
                  LET target == AliasOf(files[fp].content)
                  IN  IF StartsWith(target, "man")
                      THEN /\ resp.status = 307
                           /\ resp.location = "/" \o SubSeq(target, 4, Len(target))
                                                  \o ".html"
                           /\ resp.body = ""
                      ELSE resp.status = 404
    /\ (IsRender /\ Started("format_reply")) => ~HasAlias

\* the spec's example: ".so man1/ls.1" redirects to /1/ls.1.html
AliasRedirect ==
    /\ Done /\ IsRender /\ HasAlias
    /\ ReadLine(files[fp].content) = ".so man1/ls.1\n"
    /\ req.ims.some
    /\ resp.status = 307
    /\ resp.location = "/1/ls.1.html"
    /\ ops = <<bg(Blocking("metadata", fp)), bg(Blocking("check_so", fp))>>

\* C5: every 200 and alias-redirect response carries the document's
\* modification time as its date header, and presenting that header value
\* as If-Modified-Since on the next request for the same document yields
\* 304 with an empty body.
DateRoundTrip ==
    /\ (Done /\ IsRender /\ resp.status \in {200, 307}) =>
           resp.date = Some(HttpDateString(files[fp].mtime))
    /\ (Done /\ IsRender /\ fp # "" /\ prev.fp = fp /\ prev.date.some
             /\ req.ims = prev.date) =>
           resp.status = 304 /\ resp.body = ""

ExpectedStatus(kind) ==
    CASE kind = "NotFound" -> 404
      [] kind = "PermissionDenied" -> 403
      [] OTHER -> 500

\* C6: a failure returned by a collaborator during a render request
\* (metadata read, first-line read, formatter invocation, output decoding)
\* ends the request with exactly 404 for not-found, 403 for permission
\* denied and 500 plus a diagnostic otherwise; the response carries no
\* content, and no diagnostic is written without such a failure.
FailuresAreTranslated ==
    /\ (Done /\ failure # "") =>
           /\ resp = [status |-> ExpectedStatus(failure), location |-> "",
                      date |-> None, body |-> ""]
           /\ diag <=> (resp.status = 500)
    /\ (failure # "") => Done
    /\ diag => failure # ""
    /\ (Done /\ IsRender) => resp.status \in {200, 304, 307, 400, 403, 404, 500}

\* the first line cannot be decompressed: 500 and a diagnostic
UndecodableFirstLine ==
    /\ Done /\ IsRender
    /\ failure = "InvalidData"
    /\ Len(ops) = 2
    /\ resp.status = 500
    /\ diag

\* C7: a render request with an If-Modified-Since header that is not an
\* HTTP date is answered 400 with a diagnostic body, and no metadata read,
\* first-line read or formatter run is performed or started for it.
BadDateRejected ==
    (IsRender /\ Unparsable(req.ims)) =>
        /\ Done
        /\ resp.status = 400
        /\ resp.body # ""
        /\ ops = <<>>
        /\ inflight = {}

\* a bad date on a request for a document that exists
BadDateOnExistingPage ==
    /\ Done /\ IsRender
    /\ req.ims = Some("yesterday")
    /\ req.segs = <<"1", "ls.1.html">>
    /\ Metadata("/usr/share/man/man1/ls.1.gz").ok
    /\ resp.status = 400

\* C8: a process instance drives at most one connection.  If fd 0 is not a
\* socket it exits having served nothing and written no diagnostic;
\* otherwise it serves that one connection, and when it has exited no
\* blocking work is left, a request cut off by the end of the connection
\* stays unanswered, and no second connection was taken.
OneConnectionPerProcess ==
    /\ conns <= 1
    /\ (fd0 # "tcp") =>
           /\ conns = 0 /\ served = 0 /\ ~diag
           /\ req = NoReq /\ resp = NoResp
           /\ procPc \in {"start", "exited"}
    /\ (served > 0 \/ req # NoReq) => (conns = 1 /\ fd0 = "tcp")
    /\ (procPc = "serving") => conns = 1
    /\ (procPc = "exited") => (pc \in {"idle", "dropped"} /\ inflight = {})
    /\ (pc = "dropped") => (procPc = "exited" /\ resp = NoResp)

\* the process has exited after answering requests on its one connection
ExitedAfterServing ==
    /\ procPc = "exited"
    /\ conns = 1
    /\ served >= 1

\* C9 as stated: a two-segment request whose name lacks ".html" is
\* answered 404 and touches no document.
NoSuffixIs404 ==
    (Done /\ IsRender /\ ~EndsWith(req.segs[2], ".html")) =>
        /\ resp.status = 404
        /\ ops = <<>> /\ inflight = {}

\* C9, amended: a two-segment request whose name lacks ".html" is answered
\* 404 when its If-Modified-Since header is absent or parsable and 400 when
\* it is unparsable; either way no document is touched.
NoSuffixIs404UnlessBadDate ==
    (IsRender /\ ~EndsWith(req.segs[2], ".html")) =>
        /\ Done
        /\ resp.status = IF Unparsable(req.ims) THEN 400 ELSE 404
        /\ resp.body = IF Unparsable(req.ims)
                       THEN "cannot parse If-Modified-Since" ELSE ""
        /\ ops = <<>> /\ inflight = {} /\ failure = ""

\* /1/ls.1 with a valid date is answered 404 although man1/ls.1.gz exists
NoSuffixNotFound ==
    /\ Done /\ IsRender
    /\ req.segs = <<"1", "ls.1">>
    /\ req.ims = Some("Fri, 01 Jan 1971 00:00:00 GMT")
    /\ ~Unparsable(req.ims)
    /\ "/usr/share/man/man1/ls.1.gz" \in DOMAIN files
    /\ resp.status = 404

\* C10: every blocking operation of a handler runs on a worker, never on
\* the scheduling thread; the handler is suspended while it runs; at most
\* one is in flight, and a render request performs them in the order
\* metadata read, first-line read, formatting.
BlockingWorkIsOffloaded ==
    /\ \A i \in 1..Len(ops) : ops[i].thread = "worker"
    /\ \A t \in inflight : t.thread = "worker"
    /\ Cardinality(inflight) <= 1
    /\ (inflight # {}) => pc # "idle"
    /\ IsRender =>
           /\ Len(ops) <= 3
           /\ \A i \in 1..Len(ops) :
                  ops[i].op = <<"metadata", "check_so", "format_reply">>[i]
====
